---- MODULE Spec2Model ----
\* Model of the UPER primitive layer of asn1rs: the default methods of the
\* Reader and Writer traits (src/src/io/uper.rs) running over a BitBuffer.
EXTENDS Integers, Sequences, FiniteSets, TLC

VARIABLES buf, log, overflow_checks

vars == <<buf, log, overflow_checks>>

\* ------------------------------------------------------------------------
\* Program constants
\* ------------------------------------------------------------------------
BYTE_LEN == 8
UPER_LENGTH_DET_L1 == 127
UPER_LENGTH_DET_L2 == 16383

\* ------------------------------------------------------------------------
\* Bounds of the model
\* ------------------------------------------------------------------------
\* number of operations applied to one buffer
MaxOps == 2
\* number of operations applied to one buffer where runs of calls matter
MaxRun == 3
\* longest byte slice handed to the bit-string and octet-string operations
MaxBytes == 2
\* deepest nesting of Vec and Option around a RustType
MaxNest == 2

\* ------------------------------------------------------------------------
\* 64-bit machine words.  TLC's integers are narrower than an i64/u64, so a
\* word is kept as its eight big-endian octets, the form in which the code
\* itself handles it (to_be_bytes, NetworkEndian::write_u64 / read_u64).
\* ------------------------------------------------------------------------
Byte == 0..255

\* the word of a small non-negative number (n < 2^31)
U64(n) == [i \in 1..8 |-> IF i <= 4 THEN 0 ELSE (n \div (256 ^ (8 - i))) % 256]

WordNot(a) == [i \in 1..8 |-> 255 - a[i]]

\* a + b + cin modulo 2^64
WordAdd(a, b, cin) ==
    LET c[i \in 1..9] == IF i = 9 THEN cin ELSE (a[i] + b[i] + c[i + 1]) \div 256
    IN  [i \in 1..8 |-> (a[i] + b[i] + c[i + 1]) % 256]

wrapping_add(a, b) == WordAdd(a, b, 0)
wrapping_sub(a, b) == WordAdd(a, WordNot(b), 1)

\* the word of a small signed number
I64(n) == IF n >= 0 THEN U64(n) ELSE wrapping_sub(U64(0), U64(0 - n))

I64_MAX == <<127, 255, 255, 255, 255, 255, 255, 255>>
I64_MIN == <<128, 0, 0, 0, 0, 0, 0, 0>>
U64_MAX == <<255, 255, 255, 255, 255, 255, 255, 255>>

IsNeg(a) == a[1] >= 128

\* unsigned and signed order on words
ULess(a, b) == \E i \in 1..8 : a[i] < b[i] /\ \A j \in 1..(i - 1) : a[j] = b[j]
SLess(a, b) == IF IsNeg(a) # IsNeg(b) THEN IsNeg(a) ELSE ULess(a, b)

\* i64 subtraction and addition: the wrapped result and whether the
\* mathematical result left the i64 range
i64_sub(a, b) ==
    LET r == wrapping_sub(a, b)
    IN  [v |-> r, overflow |-> IsNeg(a) # IsNeg(b) /\ IsNeg(r) # IsNeg(a)]
i64_add(a, b) ==
    LET r == wrapping_add(a, b)
    IN  [v |-> r, overflow |-> IsNeg(a) = IsNeg(b) /\ IsNeg(r) # IsNeg(a)]

\* bit k of a word, k = 0 the most significant
WordBit(a, k) == (a[(k \div 8) + 1] \div (2 ^ (7 - (k % 8)))) % 2

\* leading zero bits of an octet and of a word
ByteLeadingZeros(b) == CHOOSE k \in 0..8 : IF b = 0 THEN k = 8 ELSE b \div (2 ^ (7 - k)) = 1
leading_zeros(a) ==
    IF \A i \in 1..8 : a[i] = 0 THEN 64
    ELSE LET i == CHOOSE i \in 1..8 : a[i] # 0 /\ \A j \in 1..(i - 1) : a[j] = 0
         IN  (i - 1) * 8 + ByteLeadingZeros(a[i])

\* the number held by a word that is known to be small
WordToNat(a) == a[5] * 16777216 + a[6] * 65536 + a[7] * 256 + a[8]
IsSmallWord(a) == a[1] = 0 /\ a[2] = 0 /\ a[3] = 0 /\ a[4] = 0 /\ a[5] < 128

\* ------------------------------------------------------------------------
\* Octets
\* ------------------------------------------------------------------------
GetBit(byte, bit_pos) == (byte \div (2 ^ bit_pos)) % 2
SetBit(byte, bit_pos) == IF GetBit(byte, bit_pos) = 1 THEN byte ELSE byte + 2 ^ bit_pos
ClearBit(byte, bit_pos) == IF GetBit(byte, bit_pos) = 1 THEN byte - 2 ^ bit_pos ELSE byte

\* ------------------------------------------------------------------------
\* Results of an operation: the buffer it leaves, Ok or the error, and the
\* value returned (or the error's payload)
\* ------------------------------------------------------------------------
Ok(b, v) == [buf |-> b, err |-> "Ok", val |-> v]
Err(b, e, payload) == [buf |-> b, err |-> e, val |-> payload]
Panic(b) == [buf |-> b, err |-> "Panic", val |-> <<>>]

\* ------------------------------------------------------------------------
\* BitBuffer: storage, write cursor and read cursor
\* ------------------------------------------------------------------------
EmptyBuffer == [storage |-> <<>>, write_pos |-> 0, read_pos |-> 0]

from_bits(bytes, bit_len) == [storage |-> bytes, write_pos |-> bit_len, read_pos |-> 0]

bit_len(b) == b.write_pos
byte_len(b) == (b.write_pos + 7) \div 8
content(b) == SubSeq(b.storage, 1, byte_len(b))
bits_remaining(b) == b.write_pos - b.read_pos

write_bit(b, bit) ==
    LET byte_pos == b.write_pos \div BYTE_LEN
        bit_pos == BYTE_LEN - (b.write_pos % BYTE_LEN) - 1
        st == IF Len(b.storage) <= byte_pos THEN Append(b.storage, 0) ELSE b.storage
        octet == IF bit THEN SetBit(st[byte_pos + 1], bit_pos)
                 ELSE ClearBit(st[byte_pos + 1], bit_pos)
    IN  Ok([b EXCEPT !.storage = [st EXCEPT ![byte_pos + 1] = octet],
                     !.write_pos = @ + 1], <<>>)

read_bit(b) ==
    IF b.read_pos >= b.write_pos THEN Err(b, "EndOfStream", <<>>)
    ELSE LET byte_pos == b.read_pos \div BYTE_LEN
             bit_pos == BYTE_LEN - (b.read_pos % BYTE_LEN) - 1
         IN  Ok([b EXCEPT !.read_pos = @ + 1], GetBit(b.storage[byte_pos + 1], bit_pos) = 1)

\* bit i of the stream held by a buffer, as 0 or 1
StreamBit(b, i) == GetBit(b.storage[(i \div 8) + 1], 7 - (i % 8))
\* the bits from..to-1 of the stream
StreamBits(b, from, to) == [k \in 1..(to - from) |-> StreamBit(b, from + k - 1)]
\* the bits an operation appended to the buffer it started from
Appended(pre, post) == StreamBits(post, pre.write_pos, post.write_pos)

\* the ? operator: res?, then rest on what res left and returned
AndThen(res, rest(_)) == IF res.err = "Ok" THEN rest(res) ELSE res

\* ------------------------------------------------------------------------
\* Writer
\* ------------------------------------------------------------------------
RECURSIVE write_bits_lsb_first(_, _, _, _)
\* the loop of write_bit_string without the flip of bit_pos
write_bits_lsb_first(w, buffer, bit, end) ==
    IF bit >= end THEN Ok(w, <<>>)
    ELSE IF end = bit + 1
    THEN write_bit(w, GetBit(buffer[(bit \div BYTE_LEN) + 1], bit % BYTE_LEN) = 1)
    ELSE AndThen(write_bits_lsb_first(w, buffer, bit, bit + ((end - bit) \div 2)),
                 LAMBDA r : write_bits_lsb_first(r.buf, buffer,
                                                 bit + ((end - bit) \div 2), end))

RECURSIVE write_bits_from(_, _, _, _)
\* the loop of write_bit_string over bit .. end-1, leaving at the first error.
\* The range is walked in order, split in halves to keep the evaluation shallow.
write_bits_from(w, buffer, bit, end) ==
    IF bit >= end THEN Ok(w, <<>>)
    ELSE IF end = bit + 1
    THEN write_bit(w, GetBit(buffer[(bit \div BYTE_LEN) + 1],
                             BYTE_LEN - (bit % BYTE_LEN) - 1) = 1)
    ELSE AndThen(write_bits_from(w, buffer, bit, bit + ((end - bit) \div 2)),
                 LAMBDA r : write_bits_from(r.buf, buffer, bit + ((end - bit) \div 2), end))

\* write_bit_string starting each slice on an octet boundary of the output
write_bit_string_aligned(w, buffer, bit_offset, bit_length) ==
    IF Len(buffer) * BYTE_LEN < bit_offset \/ Len(buffer) * BYTE_LEN < bit_offset + bit_length
    THEN Err(w, "InsufficientDataInSourceBuffer", <<>>)
    ELSE AndThen(write_bits_from(w, <<0>>, 0, (BYTE_LEN - (w.write_pos % BYTE_LEN)) % BYTE_LEN),
                 LAMBDA p : write_bits_from(p.buf, buffer, bit_offset, bit_offset + bit_length))

write_bit_string(w, buffer, bit_offset, bit_length) ==
    IF Len(buffer) * BYTE_LEN < bit_offset \/ Len(buffer) * BYTE_LEN < bit_offset + bit_length
    THEN Err(w, "InsufficientDataInSourceBuffer", <<>>)
    ELSE write_bits_from(w, buffer, bit_offset, bit_offset + bit_length)

\* A negative length stands for the wrapped usize of a build without overflow
\* checks; write_bit_string rejects it by its first comparison.
write_bit_string_till_end(w, buffer, bit_offset) ==
    IF (Len(buffer) * BYTE_LEN) - bit_offset < 0 /\ overflow_checks THEN Panic(w)
    ELSE write_bit_string(w, buffer, bit_offset, (Len(buffer) * BYTE_LEN) - bit_offset)

\* write_int emitting value where the code emits value - lower
write_int_no_offset(w, value, range) ==
    IF SLess(range[2], value) \/ SLess(value, range[1])
    THEN Err(w, "ValueNotInRange", <<value, range[1], range[2]>>)
    ELSE IF overflow_checks /\ i64_sub(range[2], range[1]).overflow
    THEN Panic(w)
    ELSE write_bit_string_till_end(w, value, leading_zeros(wrapping_sub(range[2], range[1])))

\* lower is range[1], upper is range[2]
write_int(w, value, range) ==
    IF SLess(range[2], value) \/ SLess(value, range[1])
    THEN Err(w, "ValueNotInRange", <<value, range[1], range[2]>>)
    ELSE IF overflow_checks /\ (i64_sub(value, range[1]).overflow
                                \/ i64_sub(range[2], range[1]).overflow)
    THEN Panic(w)
    ELSE write_bit_string_till_end(w, wrapping_sub(value, range[1]),
                                   leading_zeros(wrapping_sub(range[2], range[1])))

\* write_length_determinant taking the short form only below 127
write_length_determinant_below_l1(w, length) ==
    IF length < UPER_LENGTH_DET_L1
    THEN AndThen(write_bit(w, FALSE),
                 LAMBDA b : write_int(b.buf, U64(length), <<U64(0), U64(UPER_LENGTH_DET_L1)>>))
    ELSE IF length <= UPER_LENGTH_DET_L2
    THEN AndThen(write_bit(w, TRUE),
                 LAMBDA b1 : AndThen(write_bit(b1.buf, FALSE),
                 LAMBDA b2 : write_int(b2.buf, U64(length),
                                       <<U64(0), U64(UPER_LENGTH_DET_L2)>>)))
    ELSE Err(w, "UnsupportedOperation", <<>>)

write_length_determinant(w, length) ==
    IF length <= UPER_LENGTH_DET_L1
    THEN AndThen(write_bit(w, FALSE),
                 LAMBDA b : write_int(b.buf, U64(length), <<U64(0), U64(UPER_LENGTH_DET_L1)>>))
    ELSE IF length <= UPER_LENGTH_DET_L2
    THEN AndThen(write_bit(w, TRUE),
                 LAMBDA b1 : AndThen(write_bit(b1.buf, FALSE),
                 LAMBDA b2 : write_int(b2.buf, U64(length),
                                       <<U64(0), U64(UPER_LENGTH_DET_L2)>>)))
    ELSE Err(w, "UnsupportedOperation", <<>>)

RECURSIVE strip_zero_octets(_, _)
\* the while loop of write_int_max: len after dropping leading zero octets
strip_zero_octets(buffer, len) ==
    IF len > 0 /\ buffer[Len(buffer) - len + 1] = 0
    THEN strip_zero_octets(buffer, len - 1) ELSE len

\* byte_len of write_int_max without the .max(1)
int_max_byte_len_no_min(buffer) == strip_zero_octets(buffer, Len(buffer))

\* byte_len of write_int_max: at least 1
int_max_byte_len(buffer) ==
    IF strip_zero_octets(buffer, Len(buffer)) > 1
    THEN strip_zero_octets(buffer, Len(buffer)) ELSE 1

write_int_max(w, value) ==
    IF ULess(I64_MAX, value)
    THEN Err(w, "ValueNotInRange", <<value, U64(0), I64_MAX>>)
    ELSE AndThen(write_length_determinant(w, int_max_byte_len(value)),
                 LAMBDA l : write_bit_string_till_end(l.buf, value,
                                (Len(value) - int_max_byte_len(value)) * BYTE_LEN))

\* write_int_normally_small taking the 6-bit form up to 64
write_int_normally_small_to_64(w, value) ==
    IF ~ULess(U64(64), value)
    THEN AndThen(write_bit(w, FALSE),
                 LAMBDA b : write_bit_string(b.buf, SubSeq(value, 8, 8), 2, 6))
    ELSE AndThen(write_bit(w, TRUE), LAMBDA b : write_int_max(b.buf, value))

write_int_normally_small(w, value) ==
    IF ~ULess(U64(63), value)
    THEN AndThen(write_bit(w, FALSE),
                 LAMBDA b : write_bit_string(b.buf, SubSeq(value, 8, 8), 2, 6))
    ELSE AndThen(write_bit(w, TRUE), LAMBDA b : write_int_max(b.buf, value))

\* index and no_of_default_variants are u64; "as i64" keeps the bits
write_choice_index(w, index, no_of_default_variants) ==
    IF overflow_checks /\ i64_sub(no_of_default_variants, U64(1)).overflow THEN Panic(w)
    ELSE write_int(w, index, <<U64(0), wrapping_sub(no_of_default_variants, U64(1))>>)

write_choice_index_extensible(w, index, no_of_default_variants) ==
    IF ~ULess(index, no_of_default_variants)
    THEN AndThen(write_bit(w, TRUE),
                 LAMBDA b : write_int_normally_small(b.buf,
                                wrapping_sub(index, no_of_default_variants)))
    ELSE AndThen(write_bit(w, FALSE),
                 LAMBDA b : write_choice_index(b.buf, index, no_of_default_variants))

\* length_range is <<>> for None and <<(min, max)>> for Some((min, max))
write_octet_string(w, string, length_range) ==
    AndThen(IF length_range # <<>>
            THEN write_int(w, U64(Len(string)), length_range[1])
            ELSE write_length_determinant(w, Len(string)),
            LAMBDA l : write_bit_string_till_end(l.buf, string, 0))

\* write_utf8_string announcing the number of chars, not of bytes
write_utf8_string_char_count(w, value) ==
    AndThen(write_length_determinant(w,
                Cardinality({i \in 1..Len(value) : value[i] < 128 \/ value[i] > 191})),
            LAMBDA l : write_bit_string_till_end(l.buf, value, 0))

\* value is the UTF-8 encoding of the str
write_utf8_string(w, value) ==
    AndThen(write_length_determinant(w, Len(value)),
            LAMBDA l : write_bit_string_till_end(l.buf, value, 0))

RECURSIVE produce(_, _, _, _)
\* the producer's writes of bits[i .. end-1] into the fresh buffer
produce(b, bits, i, end) ==
    IF i >= end THEN Ok(b, <<>>)
    ELSE IF end = i + 1 THEN write_bit(b, bits[i])
    ELSE AndThen(produce(b, bits, i, i + ((end - i) \div 2)),
                 LAMBDA r : produce(r.buf, bits, i + ((end - i) \div 2), end))

\* fun, the producer, is given by what it does to the fresh buffer handed to
\* it: the bits it writes and the result it returns
write_substring_with_length_determinant_prefix(w, fun) ==
    IF fun.err # "Ok" THEN Err(w, fun.err, <<>>)
    ELSE AndThen(produce(EmptyBuffer, fun.bits, 1, Len(fun.bits) + 1),
                 LAMBDA p : AndThen(write_length_determinant(w, byte_len(p.buf)),
                 LAMBDA l : write_bit_string(l.buf, content(p.buf), 0, bit_len(p.buf))))

\* ------------------------------------------------------------------------
\* Reader
\* ------------------------------------------------------------------------
RECURSIVE read_bits_from(_, _, _, _)
\* the loop of read_bit_string over bit .. end-1, leaving at the first error;
\* val is the destination.  The range is walked in order, split in halves.
read_bits_from(r, buffer, bit, end) ==
    IF bit >= end THEN Ok(r, buffer)
    ELSE IF end = bit + 1
    THEN AndThen(read_bit(r),
                 LAMBDA b : Ok(b.buf,
                      [buffer EXCEPT ![(bit \div BYTE_LEN) + 1] =
                          IF b.val THEN SetBit(@, BYTE_LEN - (bit % BYTE_LEN) - 1)
                          ELSE ClearBit(@, BYTE_LEN - (bit % BYTE_LEN) - 1)]))
    ELSE AndThen(read_bits_from(r, buffer, bit, bit + ((end - bit) \div 2)),
                 LAMBDA h : read_bits_from(h.buf, h.val, bit + ((end - bit) \div 2), end))

read_bit_string(r, buffer, bit_offset, bit_length) ==
    IF Len(buffer) * BYTE_LEN < bit_offset \/ Len(buffer) * BYTE_LEN < bit_offset + bit_length
    THEN Err(r, "InsufficientSpaceInDestinationBuffer", <<>>)
    ELSE read_bits_from(r, buffer, bit_offset, bit_offset + bit_length)

read_bit_string_till_end(r, buffer, bit_offset) ==
    IF (Len(buffer) * BYTE_LEN) - bit_offset < 0 /\ overflow_checks THEN Panic(r)
    ELSE read_bit_string(r, buffer, bit_offset, (Len(buffer) * BYTE_LEN) - bit_offset)

\* lower is range[1], upper is range[2]
read_int(r, range) ==
    IF overflow_checks /\ i64_sub(range[2], range[1]).overflow THEN Panic(r)
    ELSE AndThen(read_bit_string_till_end(r, U64(0),
                     leading_zeros(wrapping_sub(range[2], range[1]))),
                 LAMBDA b : IF overflow_checks /\ i64_add(b.val, range[1]).overflow
                            THEN Panic(b.buf)
                            ELSE Ok(b.buf, wrapping_add(b.val, range[1])))

\* read_length_determinant taking every prefix bit 1 for the 14-bit form
read_length_determinant_one_prefix_bit(r) ==
    AndThen(read_bit(r),
            LAMBDA b1 :
                IF ~b1.val
                THEN AndThen(read_int(b1.buf, <<U64(0), U64(UPER_LENGTH_DET_L1)>>),
                             LAMBDA i : Ok(i.buf, WordToNat(i.val)))
                ELSE AndThen(read_bit(b1.buf),
                             LAMBDA b2 :
                                 AndThen(read_int(b2.buf,
                                             <<U64(0), U64(UPER_LENGTH_DET_L2)>>),
                                         LAMBDA i : Ok(i.buf, WordToNat(i.val)))))

read_length_determinant(r) ==
    AndThen(read_bit(r),
            LAMBDA b1 :
                IF ~b1.val
                THEN AndThen(read_int(b1.buf, <<U64(0), U64(UPER_LENGTH_DET_L1)>>),
                             LAMBDA i : Ok(i.buf, WordToNat(i.val)))
                ELSE AndThen(read_bit(b1.buf),
                             LAMBDA b2 :
                                 IF ~b2.val
                                 THEN AndThen(read_int(b2.buf,
                                                  <<U64(0), U64(UPER_LENGTH_DET_L2)>>),
                                              LAMBDA i : Ok(i.buf, WordToNat(i.val)))
                                 ELSE Err(b2.buf, "UnsupportedOperation", <<>>)))

\* read_int_max filling the eight-octet buffer from its high-order end
read_int_max_high_end(r) ==
    AndThen(read_length_determinant(r),
            LAMBDA l : IF l.val > 8 THEN Err(l.buf, "UnsupportedOperation", <<>>)
                       ELSE read_bit_string(l.buf, U64(0), 0, l.val * BYTE_LEN))

read_int_max(r) ==
    AndThen(read_length_determinant(r),
            LAMBDA l : IF l.val > 8 THEN Err(l.buf, "UnsupportedOperation", <<>>)
                       ELSE read_bit_string_till_end(l.buf, U64(0),
                                (8 * BYTE_LEN) - (l.val * BYTE_LEN)))

read_int_normally_small(r) ==
    AndThen(read_bit(r),
            LAMBDA b : IF ~b.val
                       THEN AndThen(read_bit_string(b.buf, <<0>>, 2, 6),
                                    LAMBDA s : Ok(s.buf, [U64(0) EXCEPT ![8] = s.val[1]]))
                       ELSE read_int_max(b.buf))

read_choice_index(r, no_of_default_variants) ==
    IF overflow_checks /\ i64_sub(no_of_default_variants, U64(1)).overflow THEN Panic(r)
    ELSE read_int(r, <<U64(0), wrapping_sub(no_of_default_variants, U64(1))>>)

\* u64 addition leaves the u64 range when it carries out of the top octet
read_choice_index_extensible(r, no_of_default_variants) ==
    AndThen(read_bit(r),
            LAMBDA b :
                IF b.val
                THEN AndThen(read_int_normally_small(b.buf),
                             LAMBDA s :
                                 IF overflow_checks
                                    /\ ULess(wrapping_add(s.val, no_of_default_variants), s.val)
                                 THEN Panic(s.buf)
                                 ELSE Ok(s.buf, wrapping_add(s.val, no_of_default_variants)))
                ELSE read_choice_index(b.buf, no_of_default_variants))

\* the vec![0; len] of read_octet_string followed by its read_bit_string_till_end.
\* A length of 2^63 or more (a negative i64 cast to usize) exceeds what a Vec
\* can hold: vec! panics with a capacity overflow.  A length that needs more
\* bits than the stream has left reads all of them and runs into its end.
read_octets(r, len) ==
    IF IsNeg(len) THEN Panic(r)
    ELSE IF ~IsSmallWord(len) \/ WordToNat(len) * BYTE_LEN > bits_remaining(r)
    THEN Err([r EXCEPT !.read_pos = r.write_pos], "EndOfStream", <<>>)
    ELSE read_bit_string_till_end(r, [i \in 1..WordToNat(len) |-> 0], 0)

\* length_range is <<>> for None and <<(min, max)>> for Some((min, max))
read_octet_string(r, length_range) ==
    AndThen(IF length_range # <<>>
            THEN read_int(r, length_range[1])
            ELSE AndThen(read_length_determinant(r), LAMBDA d : Ok(d.buf, U64(d.val))),
            LAMBDA l : read_octets(l.buf, l.val))

\* a continuation octet of a UTF-8 sequence
IsCont(b, i) == i <= Len(b) /\ b[i] >= 128 /\ b[i] <= 191
\* the end of the well-formed UTF-8 sequence that starts at octet i, or 0 when
\* there is none (overlong forms, surrogates and code points above U+10FFFF
\* are not well formed)
Utf8SeqEnd(b, i) ==
    IF b[i] <= 127 THEN i + 1
    ELSE IF b[i] >= 194 /\ b[i] <= 223
    THEN IF IsCont(b, i + 1) THEN i + 2 ELSE 0
    ELSE IF b[i] >= 224 /\ b[i] <= 239
    THEN IF /\ IsCont(b, i + 1) /\ IsCont(b, i + 2)
            /\ (b[i] = 224 => b[i + 1] >= 160)
            /\ (b[i] = 237 => b[i + 1] <= 159)
         THEN i + 3 ELSE 0
    ELSE IF b[i] >= 240 /\ b[i] <= 244
    THEN IF /\ IsCont(b, i + 1) /\ IsCont(b, i + 2) /\ IsCont(b, i + 3)
            /\ (b[i] = 240 => b[i + 1] >= 144)
            /\ (b[i] = 244 => b[i + 1] <= 143)
         THEN i + 4 ELSE 0
    ELSE 0

\* String::from_utf8(buffer).is_ok(): every octet starts a well-formed sequence
\* or is a continuation octet of the well-formed sequence that starts up to
\* three octets before it
from_utf8_is_ok(buffer) ==
    \A i \in 1..Len(buffer) :
        IF buffer[i] >= 128 /\ buffer[i] <= 191
        THEN \E j \in 1..3 : /\ i - j >= 1
                             /\ buffer[i - j] >= 192
                             /\ Utf8SeqEnd(buffer, i - j) > i
        ELSE Utf8SeqEnd(buffer, i) # 0

\* the String is given by its UTF-8 octets
read_utf8_string(r) ==
    AndThen(read_length_determinant(r),
            LAMBDA l : AndThen(read_octets(l.buf, U64(l.val)),
            LAMBDA b : IF from_utf8_is_ok(b.val) THEN Ok(b.buf, b.val)
                       ELSE Err(b.buf, "InvalidUtf8String", <<>>)))

\* the BitBuffer returned is the value
read_substring_with_length_determinant_prefix(r) ==
    AndThen(read_length_determinant(r),
            LAMBDA l : AndThen(read_bit_string(l.buf, [i \in 1..l.val |-> 0], 0,
                                               l.val * BYTE_LEN),
            LAMBDA b : Ok(b.buf, from_bits(b.val, l.val * BYTE_LEN))))

\* ------------------------------------------------------------------------
\* Optional-field bitmap of a composite
\* ------------------------------------------------------------------------
\* an optional field: absent, or an unconstrained non-negative integer
None == [some |-> FALSE, value |-> U64(0)]
Some(v) == [some |-> TRUE, value |-> v]

\* write_opt_flag emitting a flag whatever the count of flags remaining
write_opt_flag_uncounted(w, remaining, present) ==
    AndThen(write_bit(w, present), LAMBDA b : Ok(b.buf, remaining - 1))

\* one presence flag emitted; val is the count of flags remaining after it
write_opt_flag(w, remaining, present) ==
    IF remaining <= 0 THEN Err(w, "OptFlagsExhausted", <<>>)
    ELSE AndThen(write_bit(w, present), LAMBDA b : Ok(b.buf, remaining - 1))

\* one presence flag consumed; val is the flag and the count remaining
read_opt_flag(r, remaining) ==
    IF remaining <= 0 THEN Err(r, "OptFlagsExhausted", <<>>)
    ELSE AndThen(read_bit(r),
                 LAMBDA b : Ok(b.buf, [present |-> b.val, remaining |-> remaining - 1]))

RECURSIVE write_opt_flags(_, _, _, _)
\* the bitmap: the flags of fields i.. in declaration order
write_opt_flags(w, remaining, fields, i) ==
    IF i > Len(fields) THEN Ok(w, remaining)
    ELSE AndThen(write_opt_flag(w, remaining, fields[i].some),
                 LAMBDA f : write_opt_flags(f.buf, f.val, fields, i + 1))

RECURSIVE write_opt_fields(_, _, _)
\* the payload: the fields i.. that are present, in declaration order
write_opt_fields(w, fields, i) ==
    IF i > Len(fields) THEN Ok(w, <<>>)
    ELSE IF ~fields[i].some THEN write_opt_fields(w, fields, i + 1)
    ELSE AndThen(write_int_max(w, fields[i].value),
                 LAMBDA v : write_opt_fields(v.buf, fields, i + 1))

\* a composite with `declared` optional fields written: bitmap, then payload
write_sequence(w, declared, fields) ==
    AndThen(write_opt_flags(w, declared, fields, 1),
            LAMBDA f : write_opt_fields(f.buf, fields, 1))

RECURSIVE read_opt_flags(_, _, _, _)
\* count flags consumed in declaration order; val is the flags behind acc
read_opt_flags(r, remaining, count, acc) ==
    IF count = 0 THEN Ok(r, acc)
    ELSE AndThen(read_opt_flag(r, remaining),
                 LAMBDA f : read_opt_flags(f.buf, f.val.remaining, count - 1,
                                           Append(acc, f.val.present)))

RECURSIVE read_opt_fields(_, _, _, _)
\* the fields i.. parsed as their flags say; val is the fields behind acc
read_opt_fields(r, flags, i, acc) ==
    IF i > Len(flags) THEN Ok(r, acc)
    ELSE IF ~flags[i] THEN read_opt_fields(r, flags, i + 1, Append(acc, None))
    ELSE AndThen(read_int_max(r),
                 LAMBDA v : read_opt_fields(v.buf, flags, i + 1, Append(acc, Some(v.val))))

\* a composite with `declared` optional fields read as one of count fields
read_sequence(r, declared, count) ==
    AndThen(read_opt_flags(r, declared, count, <<>>),
            LAMBDA f : read_opt_fields(f.buf, f.val, 1, <<>>))

\* ------------------------------------------------------------------------
\* RustType and SqlType
\* ------------------------------------------------------------------------
FOREIGN_KEY_DEFAULT_COLUMN == "id"
I16_MAX == U64(32767)
I32_MAX == U64(2147483647)

\* RustType: Bool, String and VecU8; the integer types U8 .. I64 with their
\* Range (U64 with an optional one, <<>> when None); Vec, Option, Complex
RustType(tag) == [tag |-> tag]
RustInt(tag, range) == [tag |-> tag, range |-> range]
Vec(inner) == [tag |-> "Vec", inner |-> inner]
Option(inner) == [tag |-> "Option", inner |-> inner]
Complex(name) == [tag |-> "Complex", name |-> name]

\* SqlType: SmallInt, Integer, BigInt, Serial, Boolean, Text and ByteArray;
\* Array, NotNull, References
SqlType(tag) == [tag |-> tag]
Array(inner) == [tag |-> "Array", inner |-> inner]
NotNull(inner) == [tag |-> "NotNull", inner |-> inner]
References(table, column, on_delete, on_update) ==
    [tag |-> "References", table |-> table, column |-> column,
     on_delete |-> on_delete, on_update |-> on_update]

\* nullable leaving NOT NULL in place
nullable_keeping_not_null(s) == s

nullable(s) == IF s.tag = "NotNull" THEN s.inner ELSE s

no_option(t) == IF t.tag = "Option" THEN t.inner ELSE t

RECURSIVE to_sql(_)
to_sql(t) ==
    IF t.tag = "Option" THEN nullable(to_sql(t.inner))
    ELSE NotNull(
        CASE t.tag = "Bool" -> SqlType("Boolean")
          [] t.tag = "U8" -> SqlType("SmallInt")
          [] t.tag = "I8" -> SqlType("SmallInt")
          [] t.tag = "U16" -> IF ~ULess(I16_MAX, t.range[2]) THEN SqlType("SmallInt")
                              ELSE SqlType("Integer")
          [] t.tag = "I16" -> SqlType("SmallInt")
          [] t.tag = "U32" -> IF ~ULess(I32_MAX, t.range[2]) THEN SqlType("Integer")
                              ELSE SqlType("BigInt")
          [] t.tag = "I32" -> SqlType("Integer")
          [] t.tag = "U64" -> SqlType("BigInt")
          [] t.tag = "I64" -> SqlType("BigInt")
          [] t.tag = "String" -> SqlType("Text")
          [] t.tag = "VecU8" -> SqlType("ByteArray")
          [] t.tag = "Vec" -> Array(to_sql(t.inner))
          [] t.tag = "Complex" ->
                References(t.name, FOREIGN_KEY_DEFAULT_COLUMN, "Cascade", "Cascade"))

RECURSIVE to_rust(_)
to_rust(s) ==
    IF s.tag = "NotNull" THEN no_option(to_rust(s.inner))
    ELSE Option(
        CASE s.tag = "SmallInt" -> RustInt("I16", <<U64(0), I16_MAX>>)
          [] s.tag = "Integer" -> RustInt("I32", <<U64(0), I32_MAX>>)
          [] s.tag = "BigInt" -> RustInt("I64", <<U64(0), I64_MAX>>)
          [] s.tag = "Serial" -> RustInt("I32", <<U64(0), I32_MAX>>)
          [] s.tag = "Boolean" -> RustType("Bool")
          [] s.tag = "Text" -> RustType("String")
          [] s.tag = "Array" -> Vec(to_rust(s.inner))
          [] s.tag = "ByteArray" -> RustType("VecU8")
          [] s.tag = "References" -> Complex(s.table))

\* ------------------------------------------------------------------------
\* Inputs
\* ------------------------------------------------------------------------
\* ranges of constrained integers: narrow, empty-width, wider than an octet,
\* negative bounds, and ranges whose span leaves the i64 range
IntRanges ==
    { <<I64(1), I64(4)>>, <<I64(5), I64(5)>>, <<I64(12), I64(300)>>,
      <<I64(0 - 2), I64(1)>>, <<I64(0), I64_MAX>>, <<I64(0 - 1), I64_MAX>>,
      <<I64_MIN, I64_MAX>> }
\* per range: both bounds, the value after the lower one, and one neighbour
\* outside (below for the ranges starting at 1, above for the others)
IntValuesOf(range) ==
    { range[1], range[2], wrapping_add(range[1], U64(1)),
      IF range[1] = I64(1) THEN wrapping_sub(range[1], U64(1))
      ELSE wrapping_add(range[2], U64(1)) }
IntArgs == UNION { { [value |-> v, range |-> rg] : v \in IntValuesOf(rg) } : rg \in IntRanges }
IntRangeArgs == { [range |-> rg] : rg \in IntRanges }

BitArgs == { [bit |-> b] : b \in BOOLEAN }
NoArgs == { [none |-> 0] }

\* lengths around the two thresholds of the length determinant
LenArgs == { [length |-> n] : n \in {0, 1, 127, 128, 16383, 16384, 20000} }

\* streams handed to from_bits before a length determinant is read: both
\* forms, the prefix 11, streams that end inside the value, the empty stream
LenStreams ==
    { [bytes |-> <<5>>, bit_len |-> 8], [bytes |-> <<127, 128>>, bit_len |-> 9],
      [bytes |-> <<128, 128>>, bit_len |-> 16], [bytes |-> <<191, 255, 0>>, bit_len |-> 24],
      [bytes |-> <<192>>, bit_len |-> 2], [bytes |-> <<255, 255, 255>>, bit_len |-> 24],
      [bytes |-> <<64>>, bit_len |-> 5], [bytes |-> <<128, 128>>, bit_len |-> 15],
      [bytes |-> <<128>>, bit_len |-> 1], [bytes |-> <<>>, bit_len |-> 0] }

\* streams handed to from_bits before an unconstrained integer is read: 1, 2
\* and 8 octets, none, 9 and 200 announced octets, a payload cut short, and
\* one integer behind a single bit
IntMaxStreams ==
    { [bytes |-> <<1, 123>>, bit_len |-> 16], [bytes |-> <<2, 4, 210, 255>>, bit_len |-> 32],
      [bytes |-> <<8, 255, 254, 253, 252, 251, 250, 249, 248>>, bit_len |-> 72],
      [bytes |-> <<0, 255>>, bit_len |-> 16],
      [bytes |-> <<9, 1, 2, 3, 4, 5, 6, 7, 8, 9>>, bit_len |-> 80],
      [bytes |-> <<128, 200, 1>>, bit_len |-> 24],
      [bytes |-> <<3, 1, 2>>, bit_len |-> 24],
      [bytes |-> <<128, 189, 128>>, bit_len |-> 17] }

\* streams handed to from_bits before reads that are to fail: the prefix 11,
\* a complete one-octet determinant, a 14-bit determinant cut short, three
\* announced octets of which two are there, the empty stream, and ten octets
TotalStreams ==
    { [bytes |-> <<192>>, bit_len |-> 2], [bytes |-> <<5>>, bit_len |-> 8],
      [bytes |-> <<128, 128>>, bit_len |-> 15], [bytes |-> <<3, 1, 2>>, bit_len |-> 24],
      [bytes |-> <<>>, bit_len |-> 0],
      [bytes |-> <<9, 1, 2, 3, 4, 5, 6, 7, 8, 9>>, bit_len |-> 80] }
\* arguments of the calls that reach the error paths and the arithmetic at
\* the edges of i64, u64 and usize
TotalInt ==
    { [value |-> I64(2), range |-> <<I64(1), I64(4)>>],
      [value |-> I64(5), range |-> <<I64(1), I64(4)>>],
      [value |-> I64(0), range |-> <<I64(0 - 1), I64_MAX>>],
      [value |-> I64(0), range |-> <<I64_MIN, I64_MAX>>] }
TotalU64 == { [value |-> U64(64)], [value |-> I64_MIN], [value |-> U64_MAX] }
TotalLen == { [length |-> 5], [length |-> 16384] }
TotalChoice ==
    { [index |-> U64(0), no_of_default_variants |-> U64(0)],
      [index |-> U64(1), no_of_default_variants |-> U64(3)],
      [index |-> U64(3), no_of_default_variants |-> U64(3)],
      [index |-> U64_MAX, no_of_default_variants |-> U64(3)],
      [index |-> U64(0), no_of_default_variants |-> I64_MIN] }
TotalChoiceCounts == { [no_of_default_variants |-> n] : n \in { U64(0), U64(3), I64_MIN } }
TotalBitString ==
    { [buffer |-> <<19>>, bit_offset |-> 0, bit_length |-> 8],
      [buffer |-> <<19>>, bit_offset |-> 0, bit_length |-> 9],
      [buffer |-> <<19, 55>>, bit_offset |-> 3, bit_length |-> 12] }
TotalTillEnd ==
    { [buffer |-> <<19>>, bit_offset |-> 3], [buffer |-> <<19>>, bit_offset |-> 9],
      [buffer |-> <<>>, bit_offset |-> 0] }
TotalOctet ==
    { [string |-> <<19, 55>>, length_range |-> << <<U64(2), U64(2)>> >>],
      [string |-> <<19>>, length_range |-> << <<U64(2), U64(2)>> >>],
      [string |-> <<19>>, length_range |-> <<>>] }
TotalOctetRanges == { [length_range |-> rg] : rg \in { <<>>, << <<U64(2), U64(2)>> >> } }

\* the RustTypes without an inner type: the ones test_rust_to_sql_to_rust
\* converts and, for each integer type, a range on either side of the
\* signed maximum its column is chosen by
BaseRustTypes ==
    { RustType("Bool"), RustType("String"), RustType("VecU8"),
      Complex("MuchComplex"), Complex("Other"),
      RustInt("I8", <<U64(0), U64(127)>>), RustInt("I8", <<I64(0 - 128), U64(127)>>),
      RustInt("U8", <<U64(0), U64(255)>>),
      RustInt("I16", <<U64(0), I16_MAX>>),
      RustInt("U16", <<U64(0), I16_MAX>>), RustInt("U16", <<U64(0), U64(32768)>>),
      RustInt("U16", <<U64(7), U64(65535)>>),
      RustInt("I32", <<U64(0), I32_MAX>>),
      RustInt("U32", <<U64(0), I32_MAX>>),
      RustInt("U32", <<U64(0), <<0, 0, 0, 0, 128, 0, 0, 0>> >>),
      RustInt("U32", <<U64(0), <<0, 0, 0, 0, 255, 255, 255, 255>> >>),
      RustInt("I64", <<U64(0), I64_MAX>>),
      RustInt("U64", <<>>), RustInt("U64", <<U64(0), U64_MAX>>) }
RECURSIVE RustTypesOf(_)
\* the RustTypes of up to n Vec and Option around a base type
RustTypesOf(n) ==
    IF n = 0 THEN BaseRustTypes
    ELSE RustTypesOf(n - 1) \cup { Vec(t) : t \in RustTypesOf(n - 1) }
                            \cup { Option(t) : t \in RustTypesOf(n - 1) }
RustTypes == RustTypesOf(MaxNest)
\* SqlTypes that no to_sql gives: test_sql_to_rust's serial column, a
\* reference without actions, an array of nullable columns
SqlTypes ==
    { NotNull(SqlType("Serial")), SqlType("Serial"),
      References("tablo", "columno", "None", "None"),
      NotNull(Array(SqlType("SmallInt"))) }

\* streams handed to from_bits before a constrained read: all bits one in
\* 2, 9, 16 and 26 bits, all bits zero, and a stream of mixed bits
RangeStreams ==
    { [bytes |-> <<192>>, bit_len |-> 2], [bytes |-> <<255, 128>>, bit_len |-> 9],
      [bytes |-> <<255, 255>>, bit_len |-> 16],
      [bytes |-> <<255, 255, 255, 192>>, bit_len |-> 26],
      [bytes |-> <<0, 0>>, bit_len |-> 16], [bytes |-> <<101, 19>>, bit_len |-> 16] }

\* streams handed to from_bits before a length determinant or an
\* unconstrained integer is read and written again: the length 5 in 8 bits
\* and in the 14-bit form, the length 128, the integer 123 in one octet, 5 in
\* two octets, 0 in one octet and in none, and an integer above i64::MAX
CanonStreams ==
    { [bytes |-> <<5>>, bit_len |-> 8], [bytes |-> <<128, 5>>, bit_len |-> 16],
      [bytes |-> <<128, 128>>, bit_len |-> 16], [bytes |-> <<1, 123>>, bit_len |-> 16],
      [bytes |-> <<2, 0, 5>>, bit_len |-> 24], [bytes |-> <<1, 0>>, bit_len |-> 16],
      [bytes |-> <<0>>, bit_len |-> 8],
      [bytes |-> <<8, 255, 254, 253, 252, 251, 250, 249, 248>>, bit_len |-> 72] }

\* composites of one and two declared optional fields, written with as many
\* fields as declared and with one more
OptionalValues == { None, Some(U64(1337)), Some(U64(0)) }
OptionalArgs ==
    { [declared |-> 1, fields |-> <<a>>] : a \in OptionalValues }
    \cup { [declared |-> 1, fields |-> <<None, Some(U64(1337))>>],
           [declared |-> 2, fields |-> <<None, Some(U64(1337))>>],
           [declared |-> 2, fields |-> <<Some(U64(0)), None>>],
           [declared |-> 2, fields |-> <<Some(U64(1337)), Some(U64(0))>>],
           [declared |-> 2, fields |-> <<None, None>>],
           [declared |-> 2, fields |-> <<None, None, Some(U64(0))>>] }
OptionalReadArgs ==
    { [declared |-> 1, count |-> 1], [declared |-> 1, count |-> 2],
      [declared |-> 2, count |-> 2], [declared |-> 2, count |-> 3] }

\* bytes and bit lengths handed to from_bits, bit_len <= 8 * len(bytes): whole
\* octets, a bit length inside an octet with zero bits and with one bits
\* behind it, spare octets, nothing
BufferStreams ==
    { [bytes |-> <<19, 55>>, bit_len |-> 16], [bytes |-> <<160>>, bit_len |-> 3],
      [bytes |-> <<255>>, bit_len |-> 3], [bytes |-> <<19, 0, 0>>, bit_len |-> 8],
      [bytes |-> <<>>, bit_len |-> 0] }

\* byte slices of up to MaxBytes octets
SomeBytes == {19, 55}
ByteSeqs == UNION { [1..n -> SomeBytes] : n \in 0..MaxBytes }
\* per slice: the whole of it; for the one-octet slices also a window inside,
\* one bit too many, and an offset behind the end
WindowsOf(b) ==
    { <<0, 8 * Len(b)>> }
        \cup (IF Len(b) = 1 THEN { <<3, 4>>, <<0, 9>>, <<9, 0>> } ELSE {})
BitStringArgs ==
    UNION { { [buffer |-> b, bit_offset |-> win[1], bit_length |-> win[2]] : win \in WindowsOf(b) }
            : b \in ByteSeqs }
ReadBitStringArgs ==
    { [buffer |-> <<0>>, bit_offset |-> 0, bit_length |-> 8],
      [buffer |-> <<255, 255>>, bit_offset |-> 3, bit_length |-> 7],
      [buffer |-> <<0>>, bit_offset |-> 2, bit_length |-> 7] }

\* u64 values around 63/64, the octet boundaries and i64::MAX
U64Values ==
    { U64(0), U64(1), U64(63), U64(64), U64(123), U64(255), U64(256), U64(1234),
      U64(65536), I64_MAX, I64_MIN, U64_MAX }
U64Args == { [value |-> v] : v \in U64Values }

\* variant counts, 2^63 (I64_MIN as a word) and u64::MAX included
ChoiceArgs ==
    { [index |-> U64(ix[1]), no_of_default_variants |-> U64(ix[2])] :
          ix \in { <<0, 0>>, <<0, 1>>, <<1, 1>>, <<0, 2>>, <<1, 2>>,
                   <<0, 3>>, <<1, 3>>, <<2, 3>>, <<3, 3>> } }
    \cup { [index |-> U64(0), no_of_default_variants |-> I64_MIN],
           [index |-> I64_MIN, no_of_default_variants |-> I64_MIN],
           [index |-> U64(0), no_of_default_variants |-> U64_MAX],
           [index |-> U64_MAX, no_of_default_variants |-> U64_MAX] }
ChoiceCounts == { U64(1), U64(3), I64_MIN, U64_MAX }
ChoiceCountArgs == { [no_of_default_variants |-> n] : n \in ChoiceCounts }
\* per variant count: root indices, the first extension indices, the first
\* index past the 6-bit form, and the largest u64
ExtIndicesOf(n) ==
    { U64(0), wrapping_sub(n, U64(1)), n, U64_MAX }
        \cup (IF IsNeg(n) THEN {}
              ELSE { wrapping_add(n, U64(63)), wrapping_add(n, U64(64)),
                     wrapping_add(n, I64_MAX) })
ChoiceExtArgs ==
    UNION { { [index |-> ix, no_of_default_variants |-> n] : ix \in ExtIndicesOf(n) }
            : n \in ChoiceCounts }

\* length ranges of octet strings: None, and Some of a few ranges
OctetRanges ==
    { <<>>, << <<U64(0), U64(2)>> >>, << <<U64(2), U64(2)>> >>,
      << <<I64(0 - 1), I64_MAX>> >> }
OctetArgs == { [string |-> b, length_range |-> rg] : b \in ByteSeqs, rg \in OctetRanges }
OctetRangeArgs == { [length_range |-> rg] : rg \in OctetRanges }

\* UTF-8 encodings of a few strs: "", "e-acute", "ab", the euro sign, and "a"
\* repeated 127 and 128 times, the lengths around the first threshold of the
\* length determinant
Utf8Args ==
    { [value |-> v] : v \in { <<>>, <<195, 169>>, <<97, 98>>, <<226, 130, 172>>,
                              [i \in 1..127 |-> 97], [i \in 1..128 |-> 97] } }
\* octet strings that are not UTF-8: a lone continuation octet, a cut-off
\* sequence, an overlong form, a surrogate
NotUtf8Args ==
    { [string |-> b, length_range |-> <<>>] :
          b \in { <<128>>, <<97, 195>>, <<192, 128>>, <<237, 160, 128>> } }
\* producers handed to write_substring_with_length_determinant_prefix: what
\* they write into the fresh buffer and what they return
SubstringArgs ==
    { [fun |-> [bits |-> <<>>, err |-> "Ok"]],
      [fun |-> [bits |-> <<TRUE, FALSE, TRUE>>, err |-> "Ok"]],
      [fun |-> [bits |-> <<TRUE, FALSE, FALSE, TRUE, FALSE, FALSE, TRUE, TRUE>>, err |-> "Ok"]],
      [fun |-> [bits |-> <<TRUE, TRUE, FALSE, FALSE, TRUE, FALSE, TRUE, FALSE, TRUE>>, err |-> "Ok"]],
      [fun |-> [bits |-> <<TRUE>>, err |-> "UnsupportedOperation"]] }

\* an argument or two of every Writer operation, for runs that mix them: odd
\* bit counts, a rejected length and a range whose span overflows i64
MixInt ==
    { [value |-> I64(2), range |-> <<I64(1), I64(4)>>],
      [value |-> I64(0), range |-> <<I64_MIN, I64_MAX>>] }
MixLen == { [length |-> 128], [length |-> 16384] }
MixBitString == { [buffer |-> <<19, 55>>, bit_offset |-> 3, bit_length |-> 7] }
MixU64 == { [value |-> U64(64)] }
MixIntMax == { [value |-> U64(1234)] }
MixChoice == { [index |-> U64(1), no_of_default_variants |-> U64(3)] }
MixChoiceExt == { [index |-> U64(4), no_of_default_variants |-> U64(3)] }
MixOctet == { [string |-> <<19, 55>>, length_range |-> << <<U64(0), U64(2)>> >>] }
MixUtf8 == { [value |-> <<195, 169>>] }
MixSubstring == { [fun |-> [bits |-> <<TRUE, FALSE, TRUE>>, err |-> "Ok"]] }

\* ------------------------------------------------------------------------
\* The state machine: operations applied one after the other to one buffer.
\* log records each call: its arguments, its result and the buffer it found.
\* overflow_checks is the build: TRUE panics on arithmetic overflow (debug),
\* FALSE wraps (release).
\* ------------------------------------------------------------------------
Init ==
    /\ buf = EmptyBuffer
    /\ log = <<>>
    /\ overflow_checks \in BOOLEAN

Panicked == Len(log) > 0 /\ log[Len(log)].err = "Panic"

Step(limit, op, arg, res) ==
    /\ Len(log) < limit
    /\ ~Panicked
    /\ buf' = res.buf
    /\ log' = Append(log, [op |-> op, arg |-> arg, err |-> res.err, val |-> res.val,
                           pre |-> buf])
    /\ UNCHANGED overflow_checks

\* the Writer call a log entry names, applied to buffer w
writer_call(w, op, arg) ==
    CASE op = "write_bit" -> write_bit(w, arg.bit)
      [] op = "write_int" -> write_int(w, arg.value, arg.range)
      [] op = "write_length_determinant" -> write_length_determinant(w, arg.length)
      [] op = "write_bit_string" ->
            write_bit_string(w, arg.buffer, arg.bit_offset, arg.bit_length)
      [] op = "write_bit_string_till_end" ->
            write_bit_string_till_end(w, arg.buffer, arg.bit_offset)
      [] op = "write_int_max" -> write_int_max(w, arg.value)
      [] op = "write_int_normally_small" -> write_int_normally_small(w, arg.value)
      [] op = "write_choice_index" ->
            write_choice_index(w, arg.index, arg.no_of_default_variants)
      [] op = "write_choice_index_extensible" ->
            write_choice_index_extensible(w, arg.index, arg.no_of_default_variants)
      [] op = "write_octet_string" -> write_octet_string(w, arg.string, arg.length_range)
      [] op = "write_utf8_string" -> write_utf8_string(w, arg.value)
      [] op = "write_substring_with_length_determinant_prefix" ->
            write_substring_with_length_determinant_prefix(w, arg.fun)
      [] op = "write_sequence" -> write_sequence(w, arg.declared, arg.fields)

\* the Reader call a log entry names, applied to buffer r
reader_call(r, op, arg) ==
    CASE op = "read_bit" -> read_bit(r)
      [] op = "read_int" -> read_int(r, arg.range)
      [] op = "read_length_determinant" -> read_length_determinant(r)
      [] op = "read_bit_string" ->
            read_bit_string(r, arg.buffer, arg.bit_offset, arg.bit_length)
      [] op = "read_bit_string_till_end" ->
            read_bit_string_till_end(r, arg.buffer, arg.bit_offset)
      [] op = "read_int_max" -> read_int_max(r)
      [] op = "read_int_normally_small" -> read_int_normally_small(r)
      [] op = "read_choice_index" -> read_choice_index(r, arg.no_of_default_variants)
      [] op = "read_choice_index_extensible" ->
            read_choice_index_extensible(r, arg.no_of_default_variants)
      [] op = "read_octet_string" -> read_octet_string(r, arg.length_range)
      [] op = "read_utf8_string" -> read_utf8_string(r)
      [] op = "read_substring_with_length_determinant_prefix" ->
            read_substring_with_length_determinant_prefix(r)
      [] op = "read_sequence" -> read_sequence(r, arg.declared, arg.count)

\* the construction of the buffer from bytes and a bit length, before any call
FromBits(limit, args) ==
    /\ log = <<>>
    /\ \E a \in args : Step(limit, "from_bits", a, Ok(from_bits(a.bytes, a.bit_len), <<>>))

Write(limit, op, args) == \E a \in args : Step(limit, op, a, writer_call(buf, op, a))
Read(limit, op, args) == \E a \in args : Step(limit, op, a, reader_call(buf, op, a))

WriteBit(limit, args) == Write(limit, "write_bit", args)
ReadBit(limit) == Read(limit, "read_bit", NoArgs)
WriteInt(limit, args) == Write(limit, "write_int", args)
ReadInt(limit, args) == Read(limit, "read_int", args)
WriteLengthDeterminant(limit, args) == Write(limit, "write_length_determinant", args)
ReadLengthDeterminant(limit) == Read(limit, "read_length_determinant", NoArgs)
WriteBitString(limit, args) == Write(limit, "write_bit_string", args)
ReadBitString(limit, args) == Read(limit, "read_bit_string", args)
WriteBitStringTillEnd(limit, args) == Write(limit, "write_bit_string_till_end", args)
ReadBitStringTillEnd(limit, args) == Read(limit, "read_bit_string_till_end", args)
WriteIntMax(limit, args) == Write(limit, "write_int_max", args)
ReadIntMax(limit) == Read(limit, "read_int_max", NoArgs)
WriteIntNormallySmall(limit, args) == Write(limit, "write_int_normally_small", args)
ReadIntNormallySmall(limit) == Read(limit, "read_int_normally_small", NoArgs)
WriteChoiceIndex(limit, args) == Write(limit, "write_choice_index", args)
ReadChoiceIndex(limit, args) == Read(limit, "read_choice_index", args)
WriteChoiceIndexExtensible(limit, args) == Write(limit, "write_choice_index_extensible", args)
ReadChoiceIndexExtensible(limit, args) == Read(limit, "read_choice_index_extensible", args)
WriteOctetString(limit, args) == Write(limit, "write_octet_string", args)
ReadOctetString(limit, args) == Read(limit, "read_octet_string", args)
WriteUtf8String(limit, args) == Write(limit, "write_utf8_string", args)
ReadUtf8String(limit) == Read(limit, "read_utf8_string", NoArgs)
ReadSubstring(limit) ==
    Read(limit, "read_substring_with_length_determinant_prefix", NoArgs)
WriteSubstring(limit, args) ==
    Write(limit, "write_substring_with_length_determinant_prefix", args)

\* constrained integers
NextInt ==
    \/ WriteBit(MaxOps, BitArgs)
    \/ WriteInt(MaxOps, IntArgs)
    \/ ReadInt(MaxOps, IntRangeArgs)
SpecInt == Init /\ [][NextInt]_vars

\* length determinants
NextLen ==
    \/ WriteBit(MaxOps, BitArgs)
    \/ WriteLengthDeterminant(MaxOps, LenArgs)
    \/ ReadLengthDeterminant(MaxOps)
SpecLen == Init /\ [][NextLen]_vars

\* length determinants read from given streams
NextLenRead ==
    \/ FromBits(MaxOps, LenStreams)
    \/ WriteLengthDeterminant(MaxOps, LenArgs)
    \/ ReadLengthDeterminant(MaxOps)
SpecLenRead == Init /\ [][NextLenRead]_vars

\* unconstrained integers read from given streams
NextIntMaxRead ==
    \/ FromBits(MaxRun, IntMaxStreams)
    \/ WriteBit(MaxRun, BitArgs)
    \/ ReadBit(MaxRun)
    \/ ReadIntMax(MaxRun)
SpecIntMaxRead == Init /\ [][NextIntMaxRead]_vars

\* bit strings
NextBits ==
    \/ WriteBit(MaxOps, BitArgs)
    \/ WriteBitString(MaxOps, BitStringArgs)
    \/ ReadBitString(MaxOps, ReadBitStringArgs)
SpecBits == Init /\ [][NextBits]_vars

\* normally-small and unconstrained integers
NextSmall ==
    \/ WriteBit(MaxOps, BitArgs)
    \/ WriteIntNormallySmall(MaxOps, U64Args)
    \/ ReadIntNormallySmall(MaxOps)
    \/ WriteIntMax(MaxOps, U64Args)
    \/ ReadIntMax(MaxOps)
SpecSmall == Init /\ [][NextSmall]_vars

\* extensible choice indices
NextChoiceExt ==
    \/ WriteBit(MaxOps, BitArgs)
    \/ WriteChoiceIndexExtensible(MaxOps, ChoiceExtArgs)
    \/ ReadChoiceIndexExtensible(MaxOps, ChoiceCountArgs)
SpecChoiceExt == Init /\ [][NextChoiceExt]_vars

\* runs of plain choice indices
NextChoice ==
    \/ WriteChoiceIndex(MaxRun, ChoiceArgs)
SpecChoice == Init /\ [][NextChoice]_vars

\* octet strings
NextOctet ==
    \/ WriteBit(MaxOps, BitArgs)
    \/ WriteOctetString(MaxOps, OctetArgs)
    \/ ReadOctetString(MaxOps, OctetRangeArgs)
SpecOctet == Init /\ [][NextOctet]_vars

\* UTF-8 strings
NextString ==
    \/ WriteBit(MaxOps, BitArgs)
    \/ WriteUtf8String(MaxOps, Utf8Args)
    \/ WriteOctetString(MaxOps, NotUtf8Args)
    \/ ReadUtf8String(MaxOps)
SpecString == Init /\ [][NextString]_vars

\* substrings
NextSubstring ==
    \/ WriteBit(MaxOps, BitArgs)
    \/ WriteSubstring(MaxOps, SubstringArgs)
    \/ ReadSubstring(MaxOps)
SpecSubstring == Init /\ [][NextSubstring]_vars

\* every operation of both traits, on given streams and with arguments that
\* reach its error paths
NextTotal ==
    \/ FromBits(MaxOps, TotalStreams)
    \/ ReadBit(MaxOps)
    \/ ReadInt(MaxOps, IntRangeArgs)
    \/ ReadLengthDeterminant(MaxOps)
    \/ ReadBitString(MaxOps, TotalBitString)
    \/ ReadBitStringTillEnd(MaxOps, TotalTillEnd)
    \/ ReadIntMax(MaxOps)
    \/ ReadIntNormallySmall(MaxOps)
    \/ ReadChoiceIndex(MaxOps, TotalChoiceCounts)
    \/ ReadChoiceIndexExtensible(MaxOps, TotalChoiceCounts)
    \/ ReadOctetString(MaxOps, TotalOctetRanges)
    \/ ReadUtf8String(MaxOps)
    \/ ReadSubstring(MaxOps)
    \/ WriteBit(MaxOps, BitArgs)
    \/ WriteInt(MaxOps, TotalInt)
    \/ WriteLengthDeterminant(MaxOps, TotalLen)
    \/ WriteBitString(MaxOps, TotalBitString)
    \/ WriteBitStringTillEnd(MaxOps, TotalTillEnd)
    \/ WriteIntMax(MaxOps, TotalU64)
    \/ WriteIntNormallySmall(MaxOps, TotalU64)
    \/ WriteChoiceIndex(MaxOps, TotalChoice)
    \/ WriteChoiceIndexExtensible(MaxOps, TotalChoice)
    \/ WriteOctetString(MaxOps, TotalOctet)
    \/ WriteUtf8String(MaxOps, MixUtf8)
    \/ WriteSubstring(MaxOps, MixSubstring \cup
                                { [fun |-> [bits |-> <<TRUE>>, err |-> "UnsupportedOperation"]] })
SpecTotal == Init /\ [][NextTotal]_vars

\* a RustType converted to its SqlType and back: the conversion of a given
\* type first, then of what the conversion before it gave
ToSql(limit, types) ==
    \E t \in (IF log = <<>> THEN types
              ELSE IF log[Len(log)].op = "to_rust" THEN { log[Len(log)].val } ELSE {}) :
        Step(limit, "to_sql", [rust |-> t], Ok(buf, to_sql(t)))
ToRust(limit, sqls) ==
    \E c \in (IF log = <<>> THEN sqls
              ELSE IF log[Len(log)].op = "to_sql" THEN { log[Len(log)].val } ELSE {}) :
        Step(limit, "to_rust", [sql |-> c], Ok(buf, to_rust(c)))
NextSql ==
    \/ ToSql(MaxOps, RustTypes)
    \/ ToRust(MaxOps, SqlTypes)
SpecSql == Init /\ [][NextSql]_vars

\* constrained reads from streams of any bits
NextRange ==
    \/ FromBits(MaxOps, RangeStreams)
    \/ ReadInt(MaxOps, IntRangeArgs)
    \/ ReadChoiceIndex(MaxOps, ChoiceCountArgs)
    \/ ReadOctetString(MaxOps, OctetRangeArgs)
SpecRange == Init /\ [][NextRange]_vars

\* the value a successful read has just returned, for the write of the
\* same kind
JustRead(op, field) ==
    IF log # <<>> /\ log[Len(log)].op = op /\ log[Len(log)].err = "Ok"
    THEN { [f \in {field} |-> log[Len(log)].val] } ELSE {}
\* length determinants and unconstrained integers read from given streams
\* and written again behind them
NextCanon ==
    \/ FromBits(MaxRun, CanonStreams)
    \/ ReadLengthDeterminant(MaxRun)
    \/ ReadIntMax(MaxRun)
    \/ WriteLengthDeterminant(MaxRun, JustRead("read_length_determinant", "length"))
    \/ WriteIntMax(MaxRun, JustRead("read_int_max", "value"))
SpecCanon == Init /\ [][NextCanon]_vars

\* composites with optional fields written and read back
WriteSequence(limit, args) == Write(limit, "write_sequence", args)
ReadSequence(limit, args) == Read(limit, "read_sequence", args)
NextOptional ==
    \/ WriteSequence(MaxOps, OptionalArgs)
    \/ ReadSequence(MaxOps, OptionalReadArgs)
SpecOptional == Init /\ [][NextOptional]_vars

\* a buffer constructed empty or from bytes, then written and read
NextBuffer ==
    \/ FromBits(MaxRun, BufferStreams)
    \/ WriteBit(MaxRun, BitArgs)
    \/ ReadBit(MaxRun)
    \/ WriteInt(MaxRun, MixInt)
    \/ ReadInt(MaxRun, { [range |-> <<I64(1), I64(4)>>] })
SpecBuffer == Init /\ [][NextBuffer]_vars

\* runs of up to MaxRun Writer operations of every kind
Next ==
    \/ WriteBit(MaxRun, BitArgs)
    \/ WriteInt(MaxRun, MixInt)
    \/ WriteLengthDeterminant(MaxRun, MixLen)
    \/ WriteBitString(MaxRun, MixBitString)
    \/ WriteIntMax(MaxRun, MixIntMax)
    \/ WriteIntNormallySmall(MaxRun, MixU64)
    \/ WriteChoiceIndex(MaxRun, MixChoice)
    \/ WriteChoiceIndexExtensible(MaxRun, MixChoiceExt)
    \/ WriteOctetString(MaxRun, MixOctet)
    \/ WriteUtf8String(MaxRun, MixUtf8)
    \/ WriteSubstring(MaxRun, MixSubstring)
Spec == Init /\ [][Next]_vars

\* ------------------------------------------------------------------------
\* Properties
\* ------------------------------------------------------------------------
\* the buffer the i-th call left
PostOf(i) == IF i < Len(log) THEN log[i + 1].pre ELSE buf
\* the bits the i-th call appended, and whether it left the earlier bits alone
AppendedBy(i) == Appended(log[i].pre, PostOf(i))
KeptPrefix(i) ==
    /\ PostOf(i).write_pos >= log[i].pre.write_pos
    /\ StreamBits(PostOf(i), 0, log[i].pre.write_pos)
           = StreamBits(log[i].pre, 0, log[i].pre.write_pos)

\* the number of bits needed to write a word: the least w with a < 2^w
BitLength(a) ==
    IF \A i \in 1..8 : a[i] = 0 THEN 0
    ELSE LET i == CHOOSE i \in 1..8 : a[i] # 0 /\ \A j \in 1..(i - 1) : a[j] = 0
         IN  8 * (8 - i) + (CHOOSE w \in 1..8 : 2 ^ (w - 1) <= a[i] /\ a[i] < 2 ^ w)
\* the w low-order bits of a word, most significant first
LowBits(a, w) == [k \in 1..w |-> WordBit(a, 64 - w + k - 1)]

InRange(v, range) == ~SLess(v, range[1]) /\ ~SLess(range[2], v)

\* C1: for every range (L, U) with L <= U and every v in it, write_int(v, (L, U))
\* into an empty buffer succeeds, and read_int((L, U)) on the result returns v
\* and leaves zero bits remaining.
C1_IntRoundTrip ==
    (Len(log) >= 1 /\ log[1].op = "write_int" /\ InRange(log[1].arg.value, log[1].arg.range))
        => /\ log[1].err = "Ok"
           /\ (Len(log) >= 2 /\ log[2].op = "read_int" /\ log[2].arg.range = log[1].arg.range)
                  => /\ log[2].err = "Ok"
                     /\ log[2].val = log[1].arg.value
                     /\ bits_remaining(PostOf(2)) = 0

\* C2: a successful write_int(v, (L, U)) appends exactly the bit length of U - L
\* many bits, the low-order bits of v - L most significant first; nothing when
\* L = U; range (1,4) with value 2 gives the bits 01.
C2_IntWidth ==
    \A i \in 1..Len(log) :
        (log[i].op = "write_int" /\ log[i].err = "Ok") =>
            LET L == log[i].arg.range[1]
                U == log[i].arg.range[2]
                w == BitLength(wrapping_sub(U, L))
                bits == AppendedBy(i)
            IN  /\ KeptPrefix(i)
                /\ bits = LowBits(wrapping_sub(log[i].arg.value, L), w)
                /\ Len(bits) = w
                /\ L = U => bits = <<>>
                /\ (log[i].arg = [value |-> I64(2), range |-> <<I64(1), I64(4)>>])
                       => bits = <<0, 1>>

\* a nine-bit constrained integer written at a position inside an octet, after
\* a zero-width one
C2_Witness ==
    /\ Len(log) = 2
    /\ log[1].op = "write_bit" \/ (log[1].op = "write_int" /\ log[1].arg.range[1] # log[1].arg.range[2])
    /\ log[2].op = "write_int" /\ log[2].err = "Ok"
    /\ log[2].arg.range = <<I64(12), I64(300)>>
    /\ log[2].pre.write_pos % 8 # 0
    /\ Len(AppendedBy(2)) = 9

\* the w-bit binary numeral of a small number, most significant bit first
NatBits(n, w) == [k \in 1..w |-> (n \div (2 ^ (w - k))) % 2]

\* C3: write_length_determinant(len) appends 8 bits (0, then len in 7 bits)
\* for len in 0..127, 16 bits (1 0, then len in 14 bits) for len in
\* 128..16383, and fails with UnsupportedOperation for len >= 16384; length
\* 128 on an empty buffer gives the octets 0x80 0x80.
C3_LengthDeterminant ==
    \A i \in 1..Len(log) :
        log[i].op = "write_length_determinant" =>
            LET len == log[i].arg.length
            IN  /\ len <= 127 =>
                    /\ log[i].err = "Ok" /\ KeptPrefix(i)
                    /\ AppendedBy(i) = <<0>> \o NatBits(len, 7)
                /\ (128 <= len /\ len <= 16383) =>
                    /\ log[i].err = "Ok" /\ KeptPrefix(i)
                    /\ AppendedBy(i) = <<1, 0>> \o NatBits(len, 14)
                /\ len >= 16384 => log[i].err = "UnsupportedOperation"
                /\ (len = 128 /\ log[i].pre = EmptyBuffer) =>
                    content(PostOf(i)) = <<128, 128>> /\ bit_len(PostOf(i)) = 16

\* both forms written one after the other, the second inside an octet
C3_Witness ==
    /\ Len(log) = 2
    /\ log[1].op = "write_bit"
    /\ log[2].op = "write_length_determinant" /\ log[2].err = "Ok"
    /\ log[2].arg.length = 16383
    /\ Len(AppendedBy(2)) = 16

\* C4: write_bit_string(B, 0, 8*|B|) on an empty buffer succeeds and leaves
\* content B with bit_len 8*|B|; stream bit i is bit 7 - (i mod 8) of octet
\* i div 8 of B.
C4_BitOrder ==
    (/\ Len(log) >= 1 /\ log[1].op = "write_bit_string"
     /\ log[1].arg.bit_offset = 0
     /\ log[1].arg.bit_length = 8 * Len(log[1].arg.buffer))
        => /\ log[1].err = "Ok"
           /\ content(PostOf(1)) = log[1].arg.buffer
           /\ bit_len(PostOf(1)) = 8 * Len(log[1].arg.buffer)
           /\ \A i \in 0..(bit_len(PostOf(1)) - 1) :
                  StreamBit(PostOf(1), i)
                      = (log[1].arg.buffer[(i \div 8) + 1] \div (2 ^ (7 - (i % 8)))) % 2

\* two octets that differ from their mirror images, written whole
C4_Witness ==
    /\ Len(log) >= 1
    /\ log[1].op = "write_bit_string" /\ log[1].err = "Ok"
    /\ log[1].arg = [buffer |-> <<19, 55>>, bit_offset |-> 0, bit_length |-> 16]
    /\ bit_len(PostOf(1)) = 16

\* the least count n >= 1 of octets with a < 256^n
OctetCount(a) ==
    CHOOSE n \in 1..8 : /\ \A k \in 1..(8 - n) : a[k] = 0
                        /\ n > 1 => a[8 - n + 1] # 0

\* C6: for every v in 0..i64::MAX, write_int_normally_small(v) on an empty
\* buffer succeeds and read_int_normally_small on the result returns v with no
\* bits remaining; the encoding is 0 then v in 6 bits when v <= 63, otherwise 1
\* followed by the unconstrained-integer encoding of v, 17 bits for v = 64.
C6_NormallySmall ==
    (/\ Len(log) >= 1 /\ log[1].op = "write_int_normally_small"
     /\ ~ULess(I64_MAX, log[1].arg.value))
        => LET v == log[1].arg.value
           IN  /\ log[1].err = "Ok"
               /\ ~ULess(U64(63), v) => AppendedBy(1) = <<0>> \o LowBits(v, 6)
               /\ ULess(U64(63), v) =>
                      AppendedBy(1)
                          = <<1>> \o Appended(EmptyBuffer, write_int_max(EmptyBuffer, v).buf)
               /\ v = U64(64) => Len(AppendedBy(1)) = 17
               /\ (Len(log) >= 2 /\ log[2].op = "read_int_normally_small")
                      => /\ log[2].err = "Ok"
                         /\ log[2].val = v
                         /\ bits_remaining(PostOf(2)) = 0

\* 64, the first value past the 6-bit form, written and read back
C6_Witness ==
    /\ Len(log) = 2
    /\ log[1].op = "write_int_normally_small" /\ log[1].arg.value = U64(64)
    /\ log[2].op = "read_int_normally_small" /\ log[2].err = "Ok"
    /\ log[2].val = U64(64)

\* C7: write_int_max(value) for value <= i64::MAX writes the length
\* determinant of n and then the n low-order octets of value, n the least
\* count >= 1 with value < 256^n (123 -> 01 7B, 1234 -> 02 04 D2, 0 -> 01 00);
\* for value > i64::MAX it fails with ValueNotInRange.
C7_IntMax ==
    \A i \in 1..Len(log) :
        log[i].op = "write_int_max" =>
            LET v == log[i].arg.value
                n == OctetCount(v)
            IN  /\ ~ULess(I64_MAX, v) =>
                    /\ log[i].err = "Ok" /\ KeptPrefix(i)
                    /\ AppendedBy(i) = (<<0>> \o NatBits(n, 7)) \o LowBits(v, 8 * n)
                /\ ULess(I64_MAX, v) => log[i].err = "ValueNotInRange"
                /\ log[i].pre = EmptyBuffer =>
                    /\ v = U64(123) => content(PostOf(i)) = <<1, 123>>
                    /\ v = U64(1234) => content(PostOf(i)) = <<2, 4, 210>>
                    /\ v = U64(0) => content(PostOf(i)) = <<1, 0>>

\* a two-octet value written at a position inside an octet
C7_Witness ==
    /\ Len(log) = 2
    /\ log[1].op = "write_bit"
    /\ log[2].op = "write_int_max" /\ log[2].err = "Ok"
    /\ log[2].arg.value = U64(1234)
    /\ Len(AppendedBy(2)) = 24

\* C8: for every root variant count N >= 1 and every index with
\* index - N <= i64::MAX, write_choice_index_extensible(index, N) on an empty
\* buffer succeeds and read_choice_index_extensible(N) on the result returns
\* index; for index < N the encoding is 0 followed by the plain choice index
\* over N, otherwise 1 followed by the normally-small encoding of index - N.
C8_ChoiceExtensible ==
    (/\ Len(log) >= 1 /\ log[1].op = "write_choice_index_extensible"
     /\ log[1].arg.no_of_default_variants # U64(0)
     /\ \/ ULess(log[1].arg.index, log[1].arg.no_of_default_variants)
        \/ ~ULess(I64_MAX, wrapping_sub(log[1].arg.index, log[1].arg.no_of_default_variants)))
        => LET index == log[1].arg.index
               N == log[1].arg.no_of_default_variants
           IN  /\ log[1].err = "Ok"
               /\ ULess(index, N) =>
                      AppendedBy(1)
                          = <<0>> \o Appended(EmptyBuffer, write_choice_index(EmptyBuffer, index, N).buf)
               /\ ~ULess(index, N) =>
                      AppendedBy(1)
                          = <<1>> \o Appended(EmptyBuffer,
                                         write_int_normally_small(EmptyBuffer,
                                             wrapping_sub(index, N)).buf)
               /\ (Len(log) >= 2 /\ log[2].op = "read_choice_index_extensible"
                   /\ log[2].arg.no_of_default_variants = N)
                      => /\ log[2].err = "Ok"
                         /\ log[2].val = index

\* C9: write_choice_index(index, N) with index < N appends index in as many
\* bits as the binary length of N - 1 (1 bit for N = 2, 2 bits for N = 3, none
\* for N = 1); indices 0, 1, 2 of 3 variants written in succession give the
\* bits 00 01 10; an index >= N is rejected with an error and nothing is
\* written.
C9_ChoiceIndex ==
    /\ \A i \in 1..Len(log) :
           log[i].op = "write_choice_index" =>
               LET index == log[i].arg.index
                   N == log[i].arg.no_of_default_variants
               IN  /\ ULess(index, N) =>
                       /\ log[i].err = "Ok" /\ KeptPrefix(i)
                       /\ AppendedBy(i)
                              = LowBits(index, BitLength(wrapping_sub(N, U64(1))))
                       /\ N = U64(1) => Len(AppendedBy(i)) = 0
                       /\ N = U64(2) => Len(AppendedBy(i)) = 1
                       /\ N = U64(3) => Len(AppendedBy(i)) = 2
                   /\ ~ULess(index, N) =>
                       /\ log[i].err \notin {"Ok", "Panic"}
                       /\ PostOf(i) = log[i].pre
    /\ (/\ Len(log) = 3
        /\ \A i \in 1..3 : /\ log[i].op = "write_choice_index"
                           /\ log[i].arg = [index |-> U64(i - 1),
                                            no_of_default_variants |-> U64(3)])
           => /\ StreamBits(buf, 0, bit_len(buf)) = <<0, 0, 0, 1, 1, 0>>
              /\ content(buf) = <<24>>

\* the octets of a byte string as stream bits
OctetBits(b) == [k \in 1..(8 * Len(b)) |-> (b[((k - 1) \div 8) + 1] \div (2 ^ (7 - ((k - 1) % 8)))) % 2]

\* whether a byte string of this length may be written under length_range
Admissible(len, length_range) ==
    IF length_range = <<>> THEN len <= 16383
    ELSE InRange(U64(len), length_range[1])

\* C10: write_octet_string(bytes, range) writes the length as a constrained
\* integer in range when one is given and as a length determinant otherwise,
\* then the 8*len payload bits; for every byte string of admissible length,
\* written into an empty buffer, read_octet_string with the same range returns
\* the bytes with zero bits remaining; [0x13, 0x37] unbounded gives 02 13 37.
C10_OctetString ==
    (/\ Len(log) >= 1 /\ log[1].op = "write_octet_string"
     /\ Admissible(Len(log[1].arg.string), log[1].arg.length_range))
        => LET string == log[1].arg.string
               range == log[1].arg.length_range
               prefix == IF range = <<>>
                         THEN write_length_determinant(EmptyBuffer, Len(string))
                         ELSE write_int(EmptyBuffer, U64(Len(string)), range[1])
           IN  /\ log[1].err = "Ok"
               /\ AppendedBy(1) = Appended(EmptyBuffer, prefix.buf) \o OctetBits(string)
               /\ (string = <<19, 55>> /\ range = <<>>) => content(PostOf(1)) = <<2, 19, 55>>
               /\ (Len(log) >= 2 /\ log[2].op = "read_octet_string"
                   /\ log[2].arg.length_range = range)
                      => /\ log[2].err = "Ok"
                         /\ log[2].val = string
                         /\ bits_remaining(PostOf(2)) = 0

\* the i-th call did what alone, the same call on an empty buffer, does: the
\* same result and the same appended bits, the earlier bits left alone
SameAs(i, alone) ==
    /\ log[i].err = alone.err
    /\ AppendedBy(i) = Appended(EmptyBuffer, alone.buf)
    /\ KeptPrefix(i)
RECURSIVE SumAppended(_)
\* the sum of the bit lengths of what the first n calls appended
SumAppended(n) == IF n = 0 THEN 0 ELSE SumAppended(n - 1) + Len(AppendedBy(n))

\* C5: what a Writer operation appends, and whether it succeeds, depends only
\* on its arguments and not on the write position: the call a run ends with
\* (every call, as every prefix of a run is a run) appends exactly the bits it
\* produces on an empty buffer and leaves the earlier bits alone, and bit_len
\* is the sum of the individual lengths; a constrained integer 1..4 followed
\* by a 3-variant enumerated takes 4 bits and three booleans take 3 bits.
C5_NoPadding ==
    /\ Len(log) > 0 =>
          SameAs(Len(log), writer_call(EmptyBuffer, log[Len(log)].op, log[Len(log)].arg))
    /\ bit_len(buf) = SumAppended(Len(log))
    /\ (/\ Len(log) = 2
        /\ log[1].op = "write_int" /\ log[1].arg.range = <<I64(1), I64(4)>> /\ log[1].err = "Ok"
        /\ log[2].op = "write_choice_index" /\ log[2].arg.no_of_default_variants = U64(3)
        /\ log[2].err = "Ok") => bit_len(buf) = 4
    /\ (Len(log) = 3 /\ \A i \in 1..3 : log[i].op = "write_bit") => bit_len(buf) = 3

\* a slice of 7 bits written at a write position that is not a multiple of 8,
\* with another operation after it
C5_Witness ==
    /\ Len(log) = 3
    /\ log[2].op = "write_bit_string" /\ log[2].err = "Ok"
    /\ log[2].pre.write_pos % 8 # 0
    /\ log[3].err = "Ok"
    /\ bit_len(buf) > log[3].pre.write_pos

\* the bits of the length determinant of a length up to 16383
LengthBits(n) == IF n <= 127 THEN <<0>> \o NatBits(n, 7) ELSE <<1, 0>> \o NatBits(n, 14)

\* C11: write_utf8_string(s) appends the length determinant of the byte length
\* n of s and then exactly its bytes (8 + 8n bits for n <= 127, 16 + 8n for
\* 128 <= n <= 16383); read_utf8_string on the result returns s; a
\* read_utf8_string that gets its octets consumes exactly the length
\* determinant plus 8*length bits, and fails with InvalidUtf8String when the
\* octets are not valid UTF-8.
C11_Utf8String ==
    \A i \in 1..Len(log) :
        /\ log[i].op = "write_utf8_string" =>
              /\ log[i].err = "Ok"
              /\ AppendedBy(i) = LengthBits(Len(log[i].arg.value)) \o OctetBits(log[i].arg.value)
              /\ Len(AppendedBy(i)) = 8 * Len(log[i].arg.value)
                     + (IF Len(log[i].arg.value) <= 127 THEN 8 ELSE 16)
              /\ (i = 1 /\ Len(log) >= 2 /\ log[2].op = "read_utf8_string")
                     => log[2].err = "Ok" /\ log[2].val = log[1].arg.value
        /\ (log[i].op = "read_utf8_string" /\ i >= 2
            /\ log[i].pre.read_pos = log[i - 1].pre.write_pos
            /\ log[i - 1].op \in {"write_utf8_string", "write_octet_string"})
              => LET string == IF log[i - 1].op = "write_utf8_string"
                               THEN log[i - 1].arg.value ELSE log[i - 1].arg.string
                 IN  /\ PostOf(i).read_pos - log[i].pre.read_pos
                            = Len(LengthBits(Len(string))) + 8 * Len(string)
                     /\ log[i].err = (IF log[i - 1].op = "write_utf8_string"
                                      THEN "Ok" ELSE "InvalidUtf8String")
                     /\ log[i].err = "Ok" => log[i].val = string

\* a string of 128 bytes written and read back
C11_Witness ==
    /\ Len(log) = 2
    /\ log[1].op = "write_utf8_string" /\ Len(log[1].arg.value) = 128
    /\ log[2].op = "read_utf8_string" /\ log[2].err = "Ok" /\ Len(log[2].val) = 128
    /\ bits_remaining(buf) = 0

\* what a producer wrote, as stream bits, padded with zero bits to whole octets
ProducedBits(bits) ==
    [k \in 1..(8 * ((Len(bits) + 7) \div 8)) |->
        IF k <= Len(bits) /\ bits[k] THEN 1 ELSE 0]

\* C12: for a producer that writes b bits, byte_len = ceil(b / 8),
\* write_substring_with_length_determinant_prefix appends the length
\* determinant of byte_len and then exactly 8*byte_len bits, the producer's
\* bits and its trailing pad bits; read_substring_with_length_determinant_prefix
\* on the result consumes exactly what was written and returns a buffer of
\* 8*byte_len bits.
C12_Substring ==
    (/\ Len(log) >= 1
     /\ log[1].op = "write_substring_with_length_determinant_prefix"
     /\ log[1].arg.fun.err = "Ok")
        => LET bits == log[1].arg.fun.bits
               n == (Len(bits) + 7) \div 8
           IN  /\ log[1].err = "Ok"
               /\ AppendedBy(1) = LengthBits(n) \o ProducedBits(bits)
               /\ (Len(log) >= 2
                   /\ log[2].op = "read_substring_with_length_determinant_prefix")
                      => /\ log[2].err = "Ok"
                         /\ bits_remaining(PostOf(2)) = 0
                         /\ bit_len(log[2].val) = 8 * n
                         /\ StreamBits(log[2].val, 0, 8 * n) = ProducedBits(bits)

\* the number written by the stream bits from..from+w-1 of a buffer
StreamNat(b, from, w) ==
    LET RECURSIVE acc(_)
        acc(k) == IF k = 0 THEN 0 ELSE 2 * acc(k - 1) + StreamBit(b, from + k - 1)
    IN  acc(w)

\* C13: read_length_determinant reads one bit; on 0 it returns the next 7 bits
\* as an unsigned value; on 1 it reads a second bit and on 0 returns the next
\* 14 bits as an unsigned value, on 1 fails with UnsupportedOperation; for
\* every len in 0..16383 it returns len on the output of
\* write_length_determinant(len) and consumes exactly those bits.
C13_ReadLengthDeterminant ==
    \A i \in 1..Len(log) :
        log[i].op = "read_length_determinant" =>
            LET r == log[i].pre
                pos == r.read_pos
                left == bits_remaining(r)
                read == PostOf(i).read_pos - pos
            IN  /\ (left >= 8 /\ StreamBit(r, pos) = 0) =>
                        /\ log[i].err = "Ok" /\ read = 8
                        /\ log[i].val = StreamNat(r, pos + 1, 7)
                /\ (left >= 16 /\ StreamBit(r, pos) = 1 /\ StreamBit(r, pos + 1) = 0) =>
                        /\ log[i].err = "Ok" /\ read = 16
                        /\ log[i].val = StreamNat(r, pos + 2, 14)
                /\ (left >= 2 /\ StreamBit(r, pos) = 1 /\ StreamBit(r, pos + 1) = 1) =>
                        log[i].err = "UnsupportedOperation"
                /\ (i = 2 /\ log[1].op = "write_length_determinant" /\ log[1].err = "Ok") =>
                        /\ log[i].err = "Ok" /\ log[i].val = log[1].arg.length
                        /\ read = bit_len(r) /\ bits_remaining(PostOf(i)) = 0

\* the longest length written and read back
C13_Witness ==
    /\ Len(log) = 2
    /\ log[1].op = "write_length_determinant" /\ log[1].arg.length = 16383
    /\ log[2].op = "read_length_determinant" /\ log[2].val = 16383
    /\ buf.read_pos = 16

\* the octet made of the 8 stream bits of a buffer that start at bit from
StreamOctet(b, from) == StreamNat(b, from, 8)

\* C14: read_int_max reads a length determinant n; for n > 8 it fails with
\* UnsupportedOperation without reading payload bits; otherwise, the stream
\* holding them, it consumes exactly 8*n further bits and returns them as a
\* big-endian unsigned integer.
C14_ReadIntMax ==
    \A i \in 1..Len(log) :
        (log[i].op = "read_int_max" /\ read_length_determinant(log[i].pre).err = "Ok") =>
            LET d == read_length_determinant(log[i].pre)
                n == d.val
                payload == d.buf.read_pos
            IN  /\ n > 8 =>
                    /\ log[i].err = "UnsupportedOperation"
                    /\ PostOf(i).read_pos = payload
                /\ (n <= 8 /\ bits_remaining(d.buf) >= 8 * n) =>
                    /\ log[i].err = "Ok"
                    /\ PostOf(i).read_pos = payload + 8 * n
                    /\ log[i].val = [k \in 1..8 |->
                                        IF k <= 8 - n THEN 0
                                        ELSE StreamOctet(d.buf, payload + 8 * (k - (8 - n) - 1))]

\* an integer read from the middle of an octet
C14_Witness ==
    /\ Len(log) = 3
    /\ log[1].op = "from_bits"
    /\ log[2].op = "read_bit"
    /\ log[3].op = "read_int_max" /\ log[3].err = "Ok" /\ log[3].val = U64(123)
    /\ buf.read_pos = 17

\* C15: write_int(v, (L, U)) fails with ValueNotInRange(v, L, U) exactly when
\* v < L or v > U, and then writes no bit; read_int never fails with
\* ValueNotInRange: its only failure is running out of bits.
C15_ValueNotInRange ==
    \A i \in 1..Len(log) :
        /\ log[i].op = "write_int" =>
              /\ log[i].err = "ValueNotInRange" <=> ~InRange(log[i].arg.value, log[i].arg.range)
              /\ log[i].err = "ValueNotInRange" =>
                    /\ log[i].val = <<log[i].arg.value, log[i].arg.range[1], log[i].arg.range[2]>>
                    /\ PostOf(i) = log[i].pre
        /\ log[i].op = "read_int" =>
              /\ log[i].err # "ValueNotInRange"
              /\ log[i].err \in {"Ok", "EndOfStream"}

\* C16: every Reader or Writer operation that returns an error leaves the
\* stream as it was before the call: a failing read has not advanced the read
\* position and a failing write has not appended any bit.
C16_FailureLeavesStream ==
    \A i \in 1..Len(log) :
        (log[i].err # "Ok" /\ log[i].err # "Panic") =>
            /\ PostOf(i).read_pos = log[i].pre.read_pos
            /\ PostOf(i).write_pos = log[i].pre.write_pos
            /\ content(PostOf(i)) = content(log[i].pre)

\* C17: no Reader or Writer operation panics, whatever its arguments: not
\* write_int or read_int on any range L <= U of i64 bounds, (i64::MIN,
\* i64::MAX) included, not the choice-index operations for N = 0, and not the
\* till-end bit-string variants for a bit_offset behind the end of the bytes,
\* which return an Insufficient* error.
C17_NoPanic ==
    \A i \in 1..Len(log) :
        /\ log[i].err # "Panic"
        /\ (/\ log[i].op \in {"write_bit_string_till_end", "read_bit_string_till_end"}
            /\ log[i].arg.bit_offset > 8 * Len(log[i].arg.buffer))
              => log[i].err \in {"InsufficientDataInSourceBuffer",
                                 "InsufficientSpaceInDestinationBuffer"}

\* C18: in every state reached by constructing a buffer (empty, or from_bits
\* with bit_len <= 8 * len(bytes)) and then writing and reading,
\* 0 <= read_pos <= write_pos <= 8 * len(storage), and in the octet that
\* contains write_pos the bits from write_pos mod 8 on are zero.
C18_BufferInvariant ==
    /\ 0 <= buf.read_pos
    /\ buf.read_pos <= buf.write_pos
    /\ buf.write_pos <= 8 * Len(buf.storage)
    /\ buf.write_pos < 8 * Len(buf.storage) =>
          \A k \in (buf.write_pos % 8)..7 :
              GetBit(buf.storage[(buf.write_pos \div 8) + 1], 7 - k) = 0

\* the operations of Reader
ReadOps ==
    { "read_bit", "read_int", "read_length_determinant", "read_bit_string",
      "read_bit_string_till_end", "read_int_max", "read_int_normally_small",
      "read_choice_index", "read_choice_index_extensible", "read_octet_string",
      "read_utf8_string", "read_substring_with_length_determinant_prefix",
      "read_sequence" }
\* the bits a length determinant takes at the read position of b: one bit
\* to tell the form, 8 in the short form, 16 in the 14-bit form, and the two
\* prefix bits of the form that is not supported
LengthNeed(b) ==
    IF bits_remaining(b) = 0 THEN 1
    ELSE IF StreamBit(b, b.read_pos) = 0 THEN 8
    ELSE IF bits_remaining(b) = 1 THEN 2
    ELSE IF StreamBit(b, b.read_pos + 1) = 0 THEN 16
    ELSE 2
\* the bits an octet string without a length range takes at the read
\* position of b: the determinant and the octets it announces
OctetStringNeed(b) ==
    IF LengthNeed(b) > bits_remaining(b) \/ LengthNeed(b) = 2 THEN LengthNeed(b)
    ELSE IF LengthNeed(b) = 8 THEN 8 + 8 * StreamNat(b, b.read_pos + 1, 7)
    ELSE 16 + 8 * StreamNat(b, b.read_pos + 2, 14)

\* C19: a read never goes beyond the written bit length.  read_bit fails
\* with EndOfStream exactly when read_pos = write_pos; read_int,
\* read_bit_string (into a destination that is large enough),
\* read_length_determinant and read_octet_string fail with EndOfStream when
\* they need more bits than write_pos - read_pos; and no read changes the
\* storage or write_pos, or moves read_pos past write_pos.
C19_ReadWithinWritten ==
    \A i \in 1..Len(log) :
        LET e == log[i]
            rem == bits_remaining(e.pre)
        IN  /\ e.op \in ReadOps =>
                  /\ PostOf(i).storage = e.pre.storage
                  /\ PostOf(i).write_pos = e.pre.write_pos
                  /\ PostOf(i).read_pos <= PostOf(i).write_pos
                  /\ PostOf(i).read_pos >= e.pre.read_pos
            /\ e.op = "read_bit" => (e.err = "EndOfStream" <=> e.pre.read_pos = e.pre.write_pos)
            /\ (e.op = "read_int"
                  /\ BitLength(wrapping_sub(e.arg.range[2], e.arg.range[1])) > rem)
                     => e.err = "EndOfStream"
            /\ (e.op = "read_bit_string"
                  /\ e.arg.bit_offset + e.arg.bit_length <= 8 * Len(e.arg.buffer)
                  /\ e.arg.bit_length > rem)
                     => e.err = "EndOfStream"
            /\ (e.op = "read_length_determinant" /\ LengthNeed(e.pre) > rem)
                     => e.err = "EndOfStream"
            /\ (e.op = "read_octet_string" /\ e.arg.length_range = <<>>
                  /\ OctetStringNeed(e.pre) > rem)
                     => e.err = "EndOfStream"

\* the bitmap of a composite: one bit per optional field, in declaration order
FlagBits(fields) == [i \in 1..Len(fields) |-> IF fields[i].some THEN 1 ELSE 0]
RECURSIVE PayloadBits(_, _)
\* the payloads of the fields i.. that are present, each the determinant of
\* its octet count and then its octets
PayloadBits(fields, i) ==
    IF i > Len(fields) THEN <<>>
    ELSE IF ~fields[i].some THEN PayloadBits(fields, i + 1)
    ELSE LengthBits(OctetCount(fields[i].value))
            \o LowBits(fields[i].value, 8 * OctetCount(fields[i].value))
            \o PayloadBits(fields, i + 1)

\* C20: a composite with k declared optional fields emits its presence bits
\* before the payloads, one bit per optional field in declaration order; the
\* (k+1)-th presence flag fails with OptFlagsExhausted on write and on read;
\* and a composite written and read back gives its fields, present or
\* absent, with no bits remaining.
C20_OptionalFlags ==
    \A i \in 1..Len(log) :
        /\ log[i].op = "write_sequence" =>
              IF Len(log[i].arg.fields) <= log[i].arg.declared
              THEN /\ log[i].err = "Ok"
                   /\ AppendedBy(i) = FlagBits(log[i].arg.fields)
                                         \o PayloadBits(log[i].arg.fields, 1)
              ELSE log[i].err = "OptFlagsExhausted"
        /\ (/\ log[i].op = "read_sequence"
            /\ log[i].arg.count > log[i].arg.declared
            /\ bits_remaining(log[i].pre) >= log[i].arg.declared)
              => log[i].err = "OptFlagsExhausted"
        /\ (/\ i = 2 /\ log[i].op = "read_sequence"
            /\ log[1].op = "write_sequence" /\ log[1].err = "Ok"
            /\ log[i].arg.declared = log[1].arg.declared
            /\ log[i].arg.count = Len(log[1].arg.fields))
              => /\ log[i].err = "Ok"
                 /\ log[i].val = log[1].arg.fields
                 /\ bits_remaining(PostOf(i)) = 0

\* Optional { value: Some(1337) } written as 81 02 9C 80 in 25 bits and read back
C20_Witness ==
    /\ Len(log) = 2
    /\ log[1].op = "write_sequence"
    /\ log[1].arg = [declared |-> 1, fields |-> <<Some(U64(1337))>>]
    /\ content(log[2].pre) = <<129, 2, 156, 128>>
    /\ bit_len(log[2].pre) = (3 * 8) + 1
    /\ log[2].op = "read_sequence" /\ log[2].err = "Ok"
    /\ log[2].val = <<Some(U64(1337))>>
    /\ bits_remaining(buf) = 0

\* the integer types of RustType
IntTags == { "U8", "I8", "U16", "I16", "U32", "I32", "U64", "I64" }
\* the signed type backing the SQL column of an integer type, range 0..MAX
SignedBacking(t) ==
    IF t.tag \in { "U8", "I8", "I16" } \/ (t.tag = "U16" /\ ~ULess(I16_MAX, t.range[2]))
    THEN RustInt("I16", <<U64(0), I16_MAX>>)
    ELSE IF t.tag \in { "U16", "I32" } \/ (t.tag = "U32" /\ ~ULess(I32_MAX, t.range[2]))
    THEN RustInt("I32", <<U64(0), I32_MAX>>)
    ELSE RustInt("I64", <<U64(0), I64_MAX>>)
\* the conversions t.to_sql().to_rust() of a run: t and what it came back as
SqlRoundTrips ==
    { i \in 2..Len(log) : /\ log[i].op = "to_rust" /\ log[i - 1].op = "to_sql"
                          /\ log[i].arg.sql = log[i - 1].val }
Unwrapped(t) == IF t.tag = "Option" THEN t.inner ELSE t

\* C21: for every RustType t, t.to_sql().to_rust() is wrapped in Option
\* exactly when t is an Option, is t itself for Bool, String, VecU8,
\* Complex(name) and Vec(inner), and for an integer type is the signed type
\* backing its SQL column with range 0..MAX.
C21_ToSqlToRust ==
    \A i \in SqlRoundTrips :
        LET t == log[i - 1].arg.rust
            back == log[i].val
        IN  /\ (back.tag = "Option") <=> (t.tag = "Option")
            /\ Unwrapped(t).tag \in { "Bool", "String", "VecU8", "Complex", "Vec" } =>
                  Unwrapped(back) = Unwrapped(t)
            /\ Unwrapped(t).tag \in IntTags => Unwrapped(back) = SignedBacking(Unwrapped(t))

RECURSIVE ColumnImage(_)
\* what a column built for t can give back: the signed backing type of an
\* integer, Vec of the image of its inner type, one Option for any number of
\* nested Options, and t itself otherwise
ColumnImage(t) ==
    IF t.tag \in IntTags THEN SignedBacking(t)
    ELSE IF t.tag = "Vec" THEN Vec(ColumnImage(t.inner))
    ELSE IF t.tag = "Option" THEN Option(Unwrapped(ColumnImage(t.inner)))
    ELSE t

\* C21, amended: t.to_sql().to_rust() is wrapped in Option exactly when t is
\* an Option; it is t itself for Bool, String, VecU8 and Complex(name), the
\* signed backing type with range 0..MAX for an integer type, Vec of the
\* image of inner for Vec(inner), and a single Option around the image of
\* the innermost type for nested Options.
C21_ToSqlToRustNested ==
    \A i \in SqlRoundTrips :
        /\ log[i].val = ColumnImage(log[i - 1].arg.rust)
        /\ (log[i].val.tag = "Option") <=> (log[i - 1].arg.rust.tag = "Option")

\* a Vec of an unsigned integer type that came back as a Vec of its backing type
C21_Witness ==
    /\ Len(log) = 2
    /\ log[1].op = "to_sql"
    /\ log[1].arg.rust = Option(Vec(RustInt("U16", <<U64(0), U64(32768)>>)))
    /\ log[1].val = Array(NotNull(SqlType("Integer")))
    /\ log[2].op = "to_rust"
    /\ log[2].val = Option(Vec(RustInt("I32", <<U64(0), I32_MAX>>)))

\* C22: for every range (L, U) with L <= U and every stream, a successful
\* read_int((L, U)) returns v with L <= v <= U; a successful
\* read_choice_index(N) returns an index below N; a successful
\* read_octet_string with a length range returns a byte string whose length
\* lies in the range.
C22_ReadInRange ==
    \A i \in 1..Len(log) :
        log[i].err = "Ok" =>
            /\ (log[i].op = "read_int" /\ ~SLess(log[i].arg.range[2], log[i].arg.range[1]))
                  => InRange(log[i].val, log[i].arg.range)
            /\ log[i].op = "read_choice_index"
                  => ULess(log[i].val, log[i].arg.no_of_default_variants)
            /\ (/\ log[i].op = "read_octet_string" /\ log[i].arg.length_range # <<>>
                /\ ~SLess(log[i].arg.length_range[1][2], log[i].arg.length_range[1][1]))
                  => InRange(U64(Len(log[i].val)), log[i].arg.length_range[1])

\* C23: whenever read_length_determinant (read_int_max) succeeds with x on
\* some stream, write_length_determinant(x) (write_int_max(x)) succeeds and
\* writes exactly the bits the read consumed.
C23_CanonicalDecode ==
    \A i \in 2..Len(log) :
        (/\ log[i - 1].err = "Ok"
         /\ \/ /\ log[i - 1].op = "read_length_determinant"
               /\ log[i].op = "write_length_determinant"
               /\ log[i].arg.length = log[i - 1].val
            \/ /\ log[i - 1].op = "read_int_max"
               /\ log[i].op = "write_int_max"
               /\ log[i].arg.value = log[i - 1].val)
          => /\ log[i].err = "Ok"
             /\ AppendedBy(i) = StreamBits(log[i - 1].pre, log[i - 1].pre.read_pos,
                                           log[i].pre.read_pos)

====
